---- MODULE Spec2Model ----
(***************************************************************************)
(* Model of memcell's MemoryCell<T> (src/src/lib.rs): a cell owning a      *)
(* current value and, optionally, the value it held before the last        *)
(* update.                                                                 *)
(*                                                                         *)
(* A driver owns a family of cells and applies every call to each cell it  *)
(* owns.  Spec drives one cell; SpecPair drives two cells built around the *)
(* same current value by independently chosen constructors and previous    *)
(* values, which is what the two-cell statements (with_last(c, None)       *)
(* against new(c), update forgetting the old previous value) are about.    *)
(***************************************************************************)
EXTENDS Integers, Sequences, FiniteSets, TLC

\* ---- bounds ----
MaxVal == 2
MaxUpdates == 2
MaxCalls == 2

\* The inhabitants of T the driver draws its arguments from.
Values == 0..MaxVal

\* ---- Option<T> ----
None == <<>>
Some(v) == <<v>>
Option(S) == {None} \cup {Some(v) : v \in S}
is_some(o) == Len(o) = 1

\* ---- core::mem::replace(dest, src): src is stored, the old value returned
replace(dest, src) == [dest |-> src, ret |-> dest]

\* ---- struct MemoryCell<T> { current, last_val } ----
MemoryCell == [current : Values, last_val : Option(Values)]

\* Every method is an operator giving the cell after the call (self), whether
\* the caller still owns the cell (live: a `self` receiver moves the cell out
\* of the caller, `&self` and `&mut self` only borrow it) and the value
\* returned (ret).

\* update, had it stored the argument in both fields.
update_stores_new(self, new) ==
    LET r == replace(self.current, new)
    IN  [self |-> [current |-> r.dest, last_val |-> Some(new)],
         live |-> TRUE,
         ret  |-> None]

\* update, had it replaced the current value and left last_val alone.
update_no_shift(self, new) ==
    LET r == replace(self.current, new)
    IN  [self |-> [current |-> r.dest, last_val |-> self.last_val],
         live |-> TRUE,
         ret  |-> None]

\* update, had it filled last_val only while it was empty.
update_keeps_oldest(self, new) ==
    LET r == replace(self.current, new)
    IN  [self |-> [current |-> r.dest,
                   last_val |-> IF is_some(self.last_val) THEN self.last_val
                                ELSE Some(r.ret)],
         live |-> TRUE,
         ret  |-> None]

update(self, new) ==
    LET r == replace(self.current, new)
    IN  [self |-> [current |-> r.dest, last_val |-> Some(r.ret)],
         live |-> TRUE,
         ret  |-> None]

\* take_current, had it preferred the previous value when there is one.
take_current_prefers_last(self) ==
    [self |-> self, live |-> FALSE,
     ret |-> IF is_some(self.last_val) THEN self.last_val[1] ELSE self.current]

take_current(self) == [self |-> self, live |-> FALSE, ret |-> self.current]

\* take_last, had it borrowed the cell (`&self`) and returned a copy.
take_last_borrows(self) == [self |-> self, live |-> TRUE, ret |-> self.last_val]

take_last(self) == [self |-> self, live |-> FALSE, ret |-> self.last_val]

take_both(self) ==
    [self |-> self, live |-> FALSE, ret |-> <<self.current, self.last_val>>]

\* has_previous, had it tested is_none.
has_previous_negated(self) ==
    [self |-> self, live |-> TRUE, ret |-> ~is_some(self.last_val)]

has_previous(self) ==
    [self |-> self, live |-> TRUE, ret |-> is_some(self.last_val)]

current(self) == [self |-> self, live |-> TRUE, ret |-> self.current]

\* last, had it moved the value out (Option::take) instead of borrowing it.
last_takes(self) ==
    [self |-> [self EXCEPT !.last_val = None], live |-> TRUE, ret |-> self.last_val]

last(self) == [self |-> self, live |-> TRUE, ret |-> self.last_val]

\* new, had it remembered the initial value as the previous one too.
new_remembers(cur) == [current |-> cur, last_val |-> Some(cur)]

new(cur) == [current |-> cur, last_val |-> None]

\* with_last, had it dropped the supplied previous value.
with_last_drops(cur, lv) == [current |-> cur, last_val |-> None]

with_last(cur, lv) == [current |-> cur, last_val |-> lv]

\* ---- the driver ----
VARIABLES
    cell,       \* cell[i]: the fields of cell i
    live,       \* live[i]: the driver still owns cell i (it was not moved out)
    ctor,       \* ctor[i]: the constructor call that built cell i
    hist,       \* the arguments of the update calls made so far, in order
    op,         \* the last call made
    ret,        \* ret[i]: what the last call returned on cell i
    seen,       \* seen[o]: what the calls of read accessor o returned since the last update
    consumed    \* consumed[i]: how many take_* calls were applied to cell i

vars == <<cell, live, ctor, hist, op, ret, seen, consumed>>

ReadOps == {"current", "last", "has_previous"}
TakeOps == {"take_current", "take_last", "take_both"}

\* A returned value, by shape: the T part, the Option<T> part, the bool part.
RetUnit == [t |-> <<>>, opt |-> <<>>, b |-> <<>>]
RetT(v) == [t |-> <<v>>, opt |-> <<>>, b |-> <<>>]
RetOpt(o) == [t |-> <<>>, opt |-> <<o>>, b |-> <<>>]
RetBool(x) == [t |-> <<>>, opt |-> <<>>, b |-> <<x>>]
RetPair(p) == [t |-> <<p[1]>>, opt |-> <<p[2]>>, b |-> <<>>]

Ids == DOMAIN cell
Owned == \A i \in Ids : live[i]

CtorCalls ==
    [fn : {"new"}, current : Values, last_val : {None}]
        \cup [fn : {"with_last"}, current : Values, last_val : Option(Values)]

Construct(k) ==
    IF k.fn = "new" THEN new(k.current) ELSE with_last(k.current, k.last_val)

\* The cells of a family are built around the same current value; their
\* constructors and previous values are chosen independently.
InitOver(S) ==
    /\ ctor \in [S -> CtorCalls]
    /\ \A i, j \in S : ctor[i].current = ctor[j].current
    /\ cell = [i \in S |-> Construct(ctor[i])]
    /\ live = [i \in S |-> TRUE]
    /\ hist = <<>>
    /\ op = "construct"
    /\ ret = [i \in S |-> RetUnit]
    /\ seen = [o \in ReadOps |-> <<>>]
    /\ consumed = [i \in S |-> 0]

Init == InitOver({"a"})

InitPair == InitOver({"a", "b"})

Update ==
    /\ Owned
    /\ Len(hist) < MaxUpdates
    /\ \E v \in Values :
        /\ cell' = [i \in Ids |-> update(cell[i], v).self]
        /\ live' = [i \in Ids |-> update(cell[i], v).live]
        /\ hist' = Append(hist, v)
    /\ op' = "update"
    /\ ret' = [i \in Ids |-> RetUnit]
    /\ seen' = [o \in ReadOps |-> <<>>]
    /\ UNCHANGED <<ctor, consumed>>

Note(o) == seen' = [seen EXCEPT ![o] = Append(seen[o], ret')]

HasPrevious ==
    /\ Owned
    /\ Len(seen["has_previous"]) < MaxCalls
    /\ cell' = [i \in Ids |-> has_previous(cell[i]).self]
    /\ live' = [i \in Ids |-> has_previous(cell[i]).live]
    /\ op' = "has_previous"
    /\ ret' = [i \in Ids |-> RetBool(has_previous(cell[i]).ret)]
    /\ Note("has_previous")
    /\ UNCHANGED <<ctor, hist, consumed>>

Current ==
    /\ Owned
    /\ Len(seen["current"]) < MaxCalls
    /\ cell' = [i \in Ids |-> current(cell[i]).self]
    /\ live' = [i \in Ids |-> current(cell[i]).live]
    /\ op' = "current"
    /\ ret' = [i \in Ids |-> RetT(current(cell[i]).ret)]
    /\ Note("current")
    /\ UNCHANGED <<ctor, hist, consumed>>

Last ==
    /\ Owned
    /\ Len(seen["last"]) < MaxCalls
    /\ cell' = [i \in Ids |-> last(cell[i]).self]
    /\ live' = [i \in Ids |-> last(cell[i]).live]
    /\ op' = "last"
    /\ ret' = [i \in Ids |-> RetOpt(last(cell[i]).ret)]
    /\ Note("last")
    /\ UNCHANGED <<ctor, hist, consumed>>

TakeCurrent ==
    /\ Owned
    /\ cell' = [i \in Ids |-> take_current(cell[i]).self]
    /\ live' = [i \in Ids |-> take_current(cell[i]).live]
    /\ op' = "take_current"
    /\ ret' = [i \in Ids |-> RetT(take_current(cell[i]).ret)]
    /\ consumed' = [i \in Ids |-> consumed[i] + 1]
    /\ UNCHANGED <<ctor, hist, seen>>

TakeLast ==
    /\ Owned
    /\ cell' = [i \in Ids |-> take_last(cell[i]).self]
    /\ live' = [i \in Ids |-> take_last(cell[i]).live]
    /\ op' = "take_last"
    /\ ret' = [i \in Ids |-> RetOpt(take_last(cell[i]).ret)]
    /\ consumed' = [i \in Ids |-> consumed[i] + 1]
    /\ UNCHANGED <<ctor, hist, seen>>

TakeBoth ==
    /\ Owned
    /\ cell' = [i \in Ids |-> take_both(cell[i]).self]
    /\ live' = [i \in Ids |-> take_both(cell[i]).live]
    /\ op' = "take_both"
    /\ ret' = [i \in Ids |-> RetPair(take_both(cell[i]).ret)]
    /\ consumed' = [i \in Ids |-> consumed[i] + 1]
    /\ UNCHANGED <<ctor, hist, seen>>

Next ==
    \/ Update
    \/ HasPrevious
    \/ Current
    \/ Last
    \/ TakeCurrent
    \/ TakeLast
    \/ TakeBoth

Spec == Init /\ [][Next]_vars

SpecPair == InitPair /\ [][Next]_vars

\* ---- properties ----

\* The values the cell was given so far: the constructor's, then each update's.
Given(i) == <<ctor[i].current>> \o hist

IsSome(o) == \E v \in Values : o = Some(v)

\* C1 (shift invariant): after new(v0) and updates v1..vn, n >= 1, the cell's
\* state is exactly current = vn, last_val = Some(v_{n-1}), whatever v0..v_{n-2}
\* were; current() returns vn and last() returns Some(v_{n-1}).
C1_ShiftInvariant ==
    \A i \in Ids :
        (live[i] /\ ctor[i].fn = "new" /\ Len(hist) >= 1) =>
            LET n == Len(hist)
                vs == Given(i)
            IN  /\ cell[i] = [current |-> vs[n + 1], last_val |-> Some(vs[n])]
                /\ op = "current" => ret[i] = RetT(vs[n + 1])
                /\ op = "last" => ret[i] = RetOpt(Some(vs[n]))

C1_Witness ==
    /\ live["a"] /\ ctor["a"].fn = "new" /\ Len(hist) >= 2
    /\ hist[Len(hist) - 1] # hist[Len(hist)]
    /\ Given("a")[Len(hist) - 1] # hist[Len(hist) - 1]
    /\ op = "last"
    /\ ret["a"] = RetOpt(Some(hist[Len(hist) - 1]))

\* C2 (construction): before any update, the cell built by new(v) holds
\* current = v and no previous value; current() returns v, last() returns None
\* and has_previous() returns false.
C2_Construction ==
    \A i \in Ids :
        (live[i] /\ ctor[i].fn = "new" /\ hist = <<>>) =>
            /\ cell[i].current = ctor[i].current
            /\ cell[i].last_val = None
            /\ op = "current" => ret[i] = RetT(ctor[i].current)
            /\ op = "last" => ret[i] = RetOpt(None)
            /\ op = "has_previous" => ret[i] = RetBool(FALSE)

C2_Witness ==
    /\ ctor["a"].fn = "new" /\ hist = <<>>
    /\ op = "has_previous" /\ ret["a"] = RetBool(FALSE)
    /\ Len(seen["current"]) >= 1 /\ Len(seen["last"]) >= 1

\* C3 (has_previous consistency): in every state of a live cell, built by
\* either constructor, has_previous() is true exactly when last() is Some(_);
\* a has_previous() call just made returned exactly that.
C3_HasPreviousConsistent ==
    \A i \in Ids :
        live[i] =>
            /\ has_previous(cell[i]).ret <=> IsSome(last(cell[i]).ret)
            /\ ~has_previous(cell[i]).ret <=> last(cell[i]).ret = None
            /\ op = "has_previous" => ret[i] = RetBool(IsSome(last(cell[i]).ret))

C3_Witness ==
    /\ op = "has_previous" /\ ret["a"] = RetBool(TRUE)
    /\ ctor["a"].fn = "with_last" /\ ctor["a"].last_val = None
    /\ Len(hist) >= 1

\* C4 (consuming extraction): a take_current step returns what current()
\* reports in the state it is applied to, a take_last step what last() reports,
\* and a take_both step the pair (current(), last()), current first.
C4_TakeReturnsContents ==
    [][\A i \in Ids :
        live[i] =>
            /\ op' = "take_current" => ret'[i] = RetT(current(cell[i]).ret)
            /\ op' = "take_last" => ret'[i] = RetOpt(last(cell[i]).ret)
            /\ op' = "take_both" =>
                   ret'[i] = RetPair(<<current(cell[i]).ret, last(cell[i]).ret>>)]_vars

C4_Witness ==
    /\ op = "take_current" /\ ~live["a"]
    /\ Len(hist) >= 2
    /\ ret["a"] = RetT(hist[Len(hist)])
    /\ hist[Len(hist)] # hist[Len(hist) - 1]

\* C5 (with_last): before any update, with_last(c, Some(p)) holds current = c
\* and last_val = Some(p), and its accessors report c, Some(p) and true; and a
\* cell built by with_last(c, None) and a cell built by new(c), given the same
\* calls, are in the same state, are both owned or both consumed, and returned
\* the same value from the last call.
C5_WithLast ==
    /\ \A i \in Ids :
        (live[i] /\ ctor[i].fn = "with_last" /\ IsSome(ctor[i].last_val)
                 /\ hist = <<>>) =>
            /\ cell[i].current = ctor[i].current
            /\ cell[i].last_val = ctor[i].last_val
            /\ op = "current" => ret[i] = RetT(ctor[i].current)
            /\ op = "last" => ret[i] = RetOpt(ctor[i].last_val)
            /\ op = "has_previous" => ret[i] = RetBool(TRUE)
    /\ \A i, j \in Ids :
        (/\ ctor[i].fn = "new"
         /\ ctor[j].fn = "with_last"
         /\ ctor[j].last_val = None
         /\ ctor[j].current = ctor[i].current) =>
            /\ cell[i] = cell[j]
            /\ live[i] = live[j]
            /\ ret[i] = ret[j]

C5_Witness ==
    /\ ctor["a"].fn = "new"
    /\ "b" \in Ids
    /\ ctor["b"] = [fn |-> "with_last", current |-> ctor["a"].current, last_val |-> None]
    /\ Len(hist) >= 1
    /\ op = "take_both"
    /\ ret["b"] = RetPair(<<hist[Len(hist)], Some(Given("a")[Len(hist)])>>)

\* C6 (INV2): a live cell built by new has no previous value exactly when no
\* update was applied to it.
C6_AbsentIffNeverUpdated ==
    \A i \in Ids :
        (live[i] /\ ctor[i].fn = "new") =>
            (cell[i].last_val = None <=> Len(hist) = 0)

C6_Witness ==
    /\ live["a"] /\ ctor["a"].fn = "new"
    /\ Len(hist) >= 1 /\ cell["a"].last_val # None

\* C7 (read accessors are pure): a current(), last() or has_previous() step
\* leaves the fields and the ownership of every cell unchanged, and returns
\* what every earlier call of the same accessor returned since the last update.
C7_ReadsArePure ==
    [][op' \in ReadOps =>
        /\ cell' = cell
        /\ live' = live
        /\ \A k \in 1..Len(seen'[op']) : seen'[op'][k] = ret']_vars

C7_Witness ==
    /\ op = "last"
    /\ Len(seen["last"]) >= 2
    /\ Len(seen["current"]) >= 1
    /\ Len(seen["has_previous"]) >= 1
    /\ Len(hist) >= 1

\* C8 (consumption ends the lifetime): a cell is consumed at most once, it is
\* owned exactly until it is consumed, and the take_* call that consumed it is
\* the last call made: no call follows it.
C8_ConsumedOnce ==
    \A i \in Ids :
        /\ consumed[i] <= 1
        /\ live[i] <=> consumed[i] = 0
        /\ ~live[i] => op \in TakeOps

C8_Witness ==
    /\ ~live["a"] /\ consumed["a"] = 1
    /\ op = "take_last"
    /\ Len(hist) >= 1

\* C9 (lifecycle of the previous slot): in every step on a live cell,
\* has_previous() never goes from true to false, it changes only in an update
\* step, and after an update step it is true.
C9_PreviousLifecycle ==
    [][\A i \in Ids :
        live[i] =>
            /\ has_previous(cell[i]).ret => has_previous(cell'[i]).ret
            /\ has_previous(cell'[i]).ret # has_previous(cell[i]).ret => op' = "update"
            /\ op' = "update" => has_previous(cell'[i]).ret]_vars

C9_Witness ==
    /\ live["a"] /\ ctor["a"].last_val = None
    /\ Len(hist) >= 2
    /\ op = "has_previous" /\ ret["a"] = RetBool(TRUE)

\* C10 (update discards the old previous value): an update step applied to two
\* cells with equal current values leaves them in the same state, whatever
\* their previous values were; and two cells in the same state stay in the
\* same state and return the same values in every later step.
C10_UpdateForgets ==
    [][\A i, j \in Ids :
        /\ (op' = "update" /\ cell[i].current = cell[j].current) =>
               cell'[i] = cell'[j]
        /\ cell[i] = cell[j] =>
               (cell'[i] = cell'[j] /\ ret'[i] = ret'[j])]_vars

C10_Witness ==
    /\ "b" \in Ids
    /\ ctor["a"].current = ctor["b"].current
    /\ ctor["a"].last_val = None /\ IsSome(ctor["b"].last_val)
    /\ ctor["b"].last_val # Some(ctor["b"].current)
    /\ Len(hist) = 1
    /\ op = "last"
    /\ ret["a"] = ret["b"]

====
